---------------------------- MODULE Spec2Model ----------------------------
(***************************************************************************)
(* The work-history knowledge store of the interview practice app:         *)
(*   app/utils/vector_store.py     LexicalVectorStore (TF-IDF, one JSON)   *)
(*   app/utils/embedding_store.py  FaissVectorStore (embeddings + index)   *)
(*   app/main.py                   _get_work_history_store (the Selector)  *)
(*                                                                         *)
(* Texts are sequences of one-character strings, so that tokenising,       *)
(* lower-casing and stripping are computed and not assumed.  Real numbers  *)
(* are fixed point with Scale units to 1.0.  JSON objects are functions    *)
(* from keys to values, read with Get(obj, key, default) as dict.get.      *)
(***************************************************************************)
EXTENDS Integers, Sequences, FiniteSets, TLC

(***************************************************************************)
(* Bounds of the model.                                                    *)
(***************************************************************************)
\* most documents (and index rows) an instance or a file holds
MaxDocs == 2
\* most texts passed to one add_texts call
MaxCall == 2
\* largest k passed to search
MaxK == 2
\* import_path is called on stores of at most MaxBefore documents
MaxBefore == 1

\* fixed point: Scale units are 1.0
Scale == 10 * 100

(***************************************************************************)
(* Values.                                                                 *)
(***************************************************************************)
\* a path at which no file exists
Absent == [absent |-> TRUE]
\* a file whose content json.loads rejects
Unparseable == [unparseable |-> TRUE]
\* no store instance is held
NoStore == [kind |-> "none"]
EmptyDict == [x \in {} |-> x]

\* dict.get(key, default)
Get(obj, key, default) == IF key \in DOMAIN obj THEN obj[key] ELSE default

Max(a, b) == IF a >= b THEN a ELSE b
Min(a, b) == IF a <= b THEN a ELSE b

RECURSIVE SumSeq(_)
SumSeq(s) == IF s = <<>> THEN 0 ELSE Head(s) + SumSeq(Tail(s))

RECURSIVE SetToSeq(_)
\* an enumeration of a finite set (dict iteration order; sums do not depend on it)
SetToSeq(S) ==
    IF S = {} THEN <<>>
    ELSE LET x == CHOOSE y \in S : TRUE IN <<x>> \o SetToSeq(S \ {x})

SumOver(S, F(_)) == SumSeq([i \in 1..Cardinality(S) |-> F(SetToSeq(S)[i])])

RECURSIVE SqrtSearch(_, _, _)
SqrtSearch(n, lo, hi) ==
    IF lo >= hi THEN lo
    ELSE LET mid == (lo + hi + 1) \div 2
         IN  IF mid * mid <= n THEN SqrtSearch(n, mid, hi)
             ELSE SqrtSearch(n, lo, mid - 1)

\* math.sqrt on fixed point squares: the floor of the square root
Sqrt(n) == SqrtSearch(n, 0, 46340)

\* math.log of the integers 1..12, in Scale units
LogTable == <<0, 693, 1099, 1386, 1609, 1792, 1946, 2079, 2197, 2303, 2398, 2485>>

\* math.log(a / b) for integers a, b
Log(a, b) == LogTable[a] - LogTable[b]

(***************************************************************************)
(* Characters and the tokenizer.                                           *)
(***************************************************************************)
Lower(c) == CASE c = "A" -> "a" [] c = "B" -> "b" [] c = "C" -> "c" [] OTHER -> c

IsAlnum(c) == c \in {"a", "b", "c", "z", "0"}

IsSpace(c) == c \in {" ", "\n", "\t"}

RECURSIVE Split(_, _)
\* re.split(r"[^a-z0-9]+", text) with the empty pieces dropped; cur is the
\* token being read
Split(text, cur) ==
    IF text = <<>> THEN (IF cur = <<>> THEN <<>> ELSE <<cur>>)
    ELSE IF IsAlnum(Head(text)) THEN Split(Tail(text), Append(cur, Head(text)))
    ELSE (IF cur = <<>> THEN <<>> ELSE <<cur>>) \o Split(Tail(text), <<>>)

_simple_tokenize(text) == Split([i \in 1..Len(text) |-> Lower(text[i])], <<>>)

TokenSet(text) == {_simple_tokenize(text)[i] : i \in 1..Len(_simple_tokenize(text))}

\* term_counts: term -> number of occurrences
TermCounts(text) ==
    LET toks == _simple_tokenize(text)
    IN  [t \in {toks[i] : i \in 1..Len(toks)} |->
            Cardinality({i \in 1..Len(toks) : toks[i] = t})]

RECURSIVE StripLeft(_)
StripLeft(s) == IF s # <<>> /\ IsSpace(Head(s)) THEN StripLeft(Tail(s)) ELSE s

RECURSIVE StripRight(_)
StripRight(s) ==
    IF s # <<>> /\ IsSpace(s[Len(s)]) THEN StripRight(SubSeq(s, 1, Len(s) - 1)) ELSE s

\* str.strip()
Strip(s) == StripRight(StripLeft(s))

\* f"d{n}"
DocId(n) == "d" \o ToString(n)

(***************************************************************************)
(* LexicalVectorStore (app/utils/vector_store.py).  An instance is a       *)
(* record [kind, docs, df, doc_count, meta]; a stored LexicalDoc is        *)
(* [id, text, metadata, tfidf, length].                                    *)
(***************************************************************************)
LexMeta == [engine |-> "lexical", version |-> 1]

LexEmpty == [kind |-> "lexical", docs |-> <<>>, df |-> EmptyDict, doc_count |-> 0,
             meta |-> LexMeta]

\* idf[term] of _recompute_tfidf and _tfidf_query, read as idf.get(term, 1.0)
Idf(df, doc_count, term) ==
    IF term \in DOMAIN df
    THEN Log(1 + Max(1, doc_count), 1 + df[term]) + Scale
    ELSE Scale

\* the augmented-TF weights of one text: term -> norm_tf * idf
TfidfVec(text, df, doc_count) ==
    LET tc == TermCounts(text)
        max_tf == CHOOSE m \in {tc[t] : t \in DOMAIN tc} :
                      \A t \in DOMAIN tc : tc[t] <= m
    IN  [t \in DOMAIN tc |->
            (((Scale \div 2) + ((Scale \div 2) * tc[t]) \div max_tf)
                 * Idf(df, doc_count, t)) \div Scale]

\* math.sqrt(sum(v * v for v in vec.values())) or 1.0
VecNorm(vec) ==
    LET Sq(t) == vec[t] * vec[t]
        n == Sqrt(SumOver(DOMAIN vec, Sq))
    IN  IF n = 0 THEN Scale ELSE n

\* _recompute_tfidf leaving documents that have weights as they are
_recompute_new_only(st) ==
    [st EXCEPT !.docs =
        [i \in DOMAIN st.docs |->
            IF _simple_tokenize(st.docs[i].text) = <<>> \/ st.docs[i].tfidf # EmptyDict
            THEN st.docs[i]
            ELSE LET vec == TfidfVec(st.docs[i].text, st.df, st.doc_count)
                 IN  [st.docs[i] EXCEPT !.tfidf = vec, !.length = VecNorm(vec)]]]

_recompute_tfidf(st) ==
    [st EXCEPT !.docs =
        [i \in DOMAIN st.docs |->
            IF _simple_tokenize(st.docs[i].text) = <<>>
            THEN [st.docs[i] EXCEPT !.tfidf = EmptyDict, !.length = 0]
            ELSE LET vec == TfidfVec(st.docs[i].text, st.df, st.doc_count)
                 IN  [st.docs[i] EXCEPT !.tfidf = vec, !.length = VecNorm(vec)]]]

\* LexSave with the norm left out of each entry
LexSaveWithoutLength(st) ==
    [meta |-> st.meta, doc_count |-> st.doc_count, df |-> st.df,
     docs |-> [i \in DOMAIN st.docs |->
                 [id |-> st.docs[i].id, text |-> st.docs[i].text,
                  metadata |-> st.docs[i].metadata, tfidf |-> st.docs[i].tfidf]]]

\* the payload _save writes to the store's path
LexSave(st) ==
    [meta |-> st.meta, doc_count |-> st.doc_count, df |-> st.df,
     docs |-> [i \in DOMAIN st.docs |->
                 [id |-> st.docs[i].id, text |-> st.docs[i].text,
                  metadata |-> st.docs[i].metadata, tfidf |-> st.docs[i].tfidf,
                  length |-> st.docs[i].length]]]

\* the entries of data["docs"] before the first one without an "id" (d["id"]
\* raises KeyError there and the entries appended so far stay)
LoadableDocs(items) ==
    LET bad == {i \in 1..Len(items) : "id" \notin DOMAIN items[i]}
        n == IF bad = {} THEN Len(items)
             ELSE (CHOOSE i \in bad : \A j \in bad : i <= j) - 1
    IN  [i \in 1..n |->
            [id |-> items[i].id, text |-> Get(items[i], "text", <<>>),
             metadata |-> Get(items[i], "metadata", EmptyDict),
             tfidf |-> Get(items[i], "tfidf", EmptyDict),
             length |-> Get(items[i], "length", 0)]]

\* _load on the parsed file
LexLoad(st, data) ==
    [st EXCEPT !.meta = Get(data, "meta", EmptyDict),
               !.doc_count = Get(data, "doc_count", 0),
               !.df = Get(data, "df", EmptyDict),
               !.docs = LoadableDocs(Get(data, "docs", <<>>))]

\* LexicalVectorStore(path): load the file when it exists, keep what _load
\* had assigned when it raises
LexicalVectorStore(file) ==
    IF file = Absent \/ file = Unparseable THEN LexEmpty
    ELSE LexLoad(LexEmpty, file)

\* LexClear with doc_count left as it was
LexClearKeepsCount(st) == [st EXCEPT !.docs = <<>>, !.df = EmptyDict]

LexClear(st) == [st EXCEPT !.docs = <<>>, !.df = EmptyDict, !.doc_count = 0]

\* DfAfter counting every occurrence of a term
DfAfterOccurrences(df, texts, n) ==
    LET new == UNION {TokenSet(texts[i]) : i \in 1..n}
    IN  [t \in DOMAIN df \cup new |->
            Get(df, t, 0) + SumSeq([i \in 1..n |-> Get(TermCounts(texts[i]), t, 0)])]

\* the df after the loop of add_texts over the n zipped pairs
DfAfter(df, texts, n) ==
    LET new == UNION {TokenSet(texts[i]) : i \in 1..n}
    IN  [t \in DOMAIN df \cup new |->
            Get(df, t, 0) + Cardinality({i \in 1..n : t \in TokenSet(texts[i])})]

\* LexAddTexts assigning the new documents to docs instead of appending them
LexAddTextsReplacing(st, texts, metadatas) ==
    LET n == Min(Len(texts), Len(metadatas))
        new == [i \in 1..n |->
                   [id |-> DocId(st.doc_count + (i - 1) + 1), text |-> texts[i],
                    metadata |-> metadatas[i], tfidf |-> EmptyDict, length |-> 0]]
    IN  _recompute_tfidf([st EXCEPT !.docs = new,
                                    !.df = DfAfter(st.df, texts, n),
                                    !.doc_count = st.doc_count + n])

\* add_texts up to (not including) the save: zip stops at the shorter list
LexAddTexts(st, texts, metadatas) ==
    LET n == Min(Len(texts), Len(metadatas))
        new == [i \in 1..n |->
                   [id |-> DocId(st.doc_count + (i - 1) + 1), text |-> texts[i],
                    metadata |-> metadatas[i], tfidf |-> EmptyDict, length |-> 0]]
    IN  _recompute_tfidf([st EXCEPT !.docs = st.docs \o new,
                                    !.df = DfAfter(st.df, texts, n),
                                    !.doc_count = st.doc_count + n])

\* the tf-idf vector of a query and its norm
_tfidf_query(st, query) ==
    IF _simple_tokenize(query) = <<>> THEN [qv |-> EmptyDict, qnorm |-> 0]
    ELSE LET qv == TfidfVec(query, st.df, st.doc_count)
         IN  [qv |-> qv, qnorm |-> VecNorm(qv)]

_cosine_sim(qv, qnorm, dv, dnorm) ==
    IF qnorm = 0 \/ dnorm = 0 THEN 0
    ELSE LET shared == DOMAIN qv \cap DOMAIN dv
             Prod(t) == qv[t] * dv[t]
         IN  SumOver(shared, Prod) \div Max(1, (qnorm * dnorm) \div Scale)

RECURSIVE SortDesc(_)
\* list.sort(key=score, reverse=True): stable, so equal scores keep their order
SortDesc(s) ==
    IF s = <<>> THEN <<>>
    ELSE LET best == CHOOSE i \in 1..Len(s) :
                         /\ \A j \in 1..Len(s) : s[j].score <= s[i].score
                         /\ \A j \in 1..(i - 1) : s[j].score < s[i].score
         IN  <<s[best]>> \o SortDesc([j \in 1..(Len(s) - 1) |->
                                         IF j < best THEN s[j] ELSE s[j + 1]])

\* the score of every stored document against the query
LexScores(st, query) ==
    LET q == _tfidf_query(st, query)
    IN  [i \in DOMAIN st.docs |->
            _cosine_sim(q.qv, q.qnorm, st.docs[i].tfidf, st.docs[i].length)]

RECURSIVE FilterNonNegative(_)
\* FilterPositive keeping the scores >= 0
FilterNonNegative(s) ==
    IF s = <<>> THEN <<>>
    ELSE (IF Head(s).score >= 0 THEN <<Head(s)>> ELSE <<>>) \o FilterNonNegative(Tail(s))

RECURSIVE FilterPositive(_)
FilterPositive(s) ==
    IF s = <<>> THEN <<>>
    ELSE (IF Head(s).score > 0 THEN <<Head(s)>> ELSE <<>>) \o FilterPositive(Tail(s))

\* LexTake without the clamp of k
LexTakeUnclamped(k, m) == Min(k, m)

\* how many of the sorted matches search returns: scored[: max(1, k)]
LexTake(k, m) == Min(Max(1, k), m)

LexSearch(st, query, k) ==
    LET sc == LexScores(st, query)
        scored == SortDesc(FilterPositive(
                     [i \in DOMAIN st.docs |->
                         [id |-> st.docs[i].id, text |-> st.docs[i].text,
                          metadata |-> st.docs[i].metadata, score |-> sc[i]]]))
    IN  SubSeq(scored, 1, LexTake(k, Len(scored)))

(***************************************************************************)
(* The embedding client and the flat index (external collaborators).  An   *)
(* embedding of width w is kept as its two leading components, the other   *)
(* w - 2 being zero; an array is [d |-> width, rows |-> its rows]; an      *)
(* index is [d |-> width, rows |-> the rows added so far].                 *)
(***************************************************************************)
\* the widths of the embedding models the configuration may name
EmbedWidths == {1536, 3072}

\* self.dim is None
DimNone == -1

\* self._index is None
NoIndex == [none |-> TRUE]

NoError == "no error"
ErrNotConfigured == "RuntimeError: OpenAI client not configured for embeddings"
ErrApi == "APIConnectionError: Connection error."
ErrDim == "AssertionError"
ErrNotFound == "FileNotFoundError"

\* the test of work_history_add / work_history_search / work_history_import_path:
\* "OpenAI client not configured" in msg or "embeddings" in msg.lower()
HasMarker(msg) == msg \in {ErrNotConfigured}

CountChar(text, c) == Cardinality({i \in 1..Len(text) : Lower(text[i]) = c})

\* client.embeddings.create for one text: a fixed function of the text
RawEmbedding(text) == <<3 * CountChar(text, "a"), 4 * CountChar(text, "b")>>

\* one row of arr / norms, with norms[norms == 0] = 1.0
Normalize(v) ==
    LET n == Sqrt(v[1] * v[1] + v[2] * v[2])
        divisor == IF n = 0 THEN 1 ELSE n
    IN  <<(v[1] * Scale) \div divisor, (v[2] * Scale) \div divisor>>

Embedding(text) == Normalize(RawEmbedding(text))

\* faiss.IndexFlatIP(d)
IndexFlatIP(d) == [d |-> d, rows |-> <<>>]

InnerProduct(u, v) == (u[1] * v[1] + u[2] * v[2]) \div Scale

(***************************************************************************)
(* FaissVectorStore (app/utils/embedding_store.py).  An instance is        *)
(* [kind, client, docs, dim, count, meta, index]; client is whether an     *)
(* api key was given; a FaissDoc is [id, text, metadata].                  *)
(***************************************************************************)
\* the batch size of add_texts, scaled down from the program's 64 so that a
\* call of MaxCall texts spans several batches
B == 1

VecMeta == [engine |-> "faiss", version |-> 1]

VecEmpty(api_key) ==
    [kind |-> "vector", client |-> api_key, docs |-> <<>>, dim |-> DimNone, count |-> 0,
     meta |-> VecMeta, index |-> NoIndex]

\* _ensure_index: dim = self.dim or 1536
DefaultDim == 1536

_ensure_index(st) ==
    IF st.index = NoIndex
    THEN [st EXCEPT !.index =
             IndexFlatIP(IF st.dim = DimNone \/ st.dim = 0 THEN DefaultDim ELSE st.dim)]
    ELSE st

\* _embed raising an error without the marker when there is no client
_embedUnmarked(st, texts, apiOk, width) ==
    IF ~st.client \/ ~apiOk THEN [st |-> st, arr |-> IndexFlatIP(0), err |-> ErrApi]
    ELSE [st |-> IF st.dim = DimNone THEN [st EXCEPT !.dim = width] ELSE st,
          arr |-> [d |-> width, rows |-> [i \in 1..Len(texts) |-> Embedding(texts[i])]],
          err |-> NoError]

\* _embed: [st, arr, err]; apiOk is whether the embeddings call succeeds and
\* width the width of the vectors it returns
_embed(st, texts, apiOk, width) ==
    IF ~st.client THEN [st |-> st, arr |-> IndexFlatIP(0), err |-> ErrNotConfigured]
    ELSE IF ~apiOk THEN [st |-> st, arr |-> IndexFlatIP(0), err |-> ErrApi]
    ELSE [st |-> IF st.dim = DimNone THEN [st EXCEPT !.dim = width] ELSE st,
          arr |-> [d |-> width, rows |-> [i \in 1..Len(texts) |-> Embedding(texts[i])]],
          err |-> NoError]

\* the two files _save writes, and the instance (whose index it creates when None)
VecSave(st) ==
    LET dim0 == IF st.dim = DimNone THEN 0 ELSE st.dim
        st1 == IF st.index = NoIndex
               THEN [st EXCEPT !.index = IndexFlatIP(IF dim0 > 0 THEN dim0 ELSE 1)]
               ELSE st
    IN  [st |-> st1,
         idx |-> st1.index,
         meta |-> [meta |-> st1.meta, dim |-> dim0,
                   docs |-> [i \in DOMAIN st1.docs |->
                               [id |-> st1.docs[i].id, text |-> st1.docs[i].text,
                                metadata |-> st1.docs[i].metadata]]]]

\* the FaissDocs one batch appends: zip(batch_t, batch_m) stops at the shorter
BatchDocs(batch_t, batch_m, first) ==
    [i \in 1..Min(Len(batch_t), Len(batch_m)) |->
        [id |-> DocId(first + (i - 1) + 1), text |-> batch_t[i], metadata |-> batch_m[i]]]

\* s[off : off + B] of Python, off counted from 0
Slice(s, off) == SubSeq(s, Min(off, Len(s)) + 1, Min(off + B, Len(s)))

RECURSIVE AddBatches(_, _, _, _, _, _, _, _)
\* the loop of add_texts from offset off on: [st, added, err, embedded];
\* failAt is the batch (counted from 1) whose embeddings call fails, 0 for none
AddBatches(st, texts, metas, off, added, start, failAt, width) ==
    IF off >= Len(texts) THEN [st |-> st, added |-> added, err |-> NoError]
    ELSE LET batch_t == Slice(texts, off)
             batch_m == Slice(metas, off)
             e == _embed(st, batch_t, failAt # (off \div B) + 1, width)
             st1 == [e.st EXCEPT !.docs = @ \o BatchDocs(batch_t, batch_m, start + added)]
         IN  IF e.err # NoError THEN [st |-> e.st, added |-> added, err |-> e.err]
             ELSE IF e.arr.d # st1.index.d
                  THEN [st |-> st1, added |-> added, err |-> ErrDim]
             ELSE AddBatches([st1 EXCEPT !.index.rows = @ \o e.arr.rows],
                             texts, metas, off + B, added + Len(batch_t), start,
                             failAt, width)

\* VecAddTexts saving what it has when a batch fails
VecAddTextsSavingPartial(w, texts, metas, failAt, width) ==
    IF texts = <<>> THEN [st |-> w.st, idx |-> w.idx, meta |-> w.meta, n |-> 0,
                          err |-> NoError, writes |-> 0]
    ELSE LET st0 == _ensure_index(w.st)
             r == AddBatches(st0, texts, metas, 0, 0, st0.count, failAt, width)
             saved == VecSave([r.st EXCEPT !.count = Len(r.st.docs)])
         IN  [st |-> saved.st, idx |-> saved.idx, meta |-> saved.meta,
              n |-> IF r.err # NoError THEN 0 ELSE r.added, err |-> r.err, writes |-> 1]

\* VecAddTexts undoing the batches of a call that fails
VecAddTextsRollingBack(w, texts, metas, failAt, width) ==
    IF texts = <<>> THEN [st |-> w.st, idx |-> w.idx, meta |-> w.meta, n |-> 0,
                          err |-> NoError, writes |-> 0]
    ELSE LET st0 == _ensure_index(w.st)
             r == AddBatches(st0, texts, metas, 0, 0, st0.count, failAt, width)
             saved == VecSave([r.st EXCEPT !.count = Len(r.st.docs)])
         IN  IF r.err # NoError
             THEN [st |-> st0, idx |-> w.idx, meta |-> w.meta, n |-> 0, err |-> r.err,
                   writes |-> 0]
             ELSE [st |-> saved.st, idx |-> saved.idx, meta |-> saved.meta,
                   n |-> r.added, err |-> NoError, writes |-> 1]

\* add_texts on the instance and its two files: [st, idx, meta, n, err, writes];
\* writes counts the calls of _save
VecAddTexts(w, texts, metas, failAt, width) ==
    IF texts = <<>> THEN [st |-> w.st, idx |-> w.idx, meta |-> w.meta, n |-> 0,
                          err |-> NoError, writes |-> 0]
    ELSE LET st0 == _ensure_index(w.st)
             r == AddBatches(st0, texts, metas, 0, 0, st0.count, failAt, width)
             saved == VecSave([r.st EXCEPT !.count = Len(r.st.docs)])
         IN  IF r.err # NoError
             THEN [st |-> r.st, idx |-> w.idx, meta |-> w.meta, n |-> 0, err |-> r.err,
                   writes |-> 0]
             ELSE [st |-> saved.st, idx |-> saved.idx, meta |-> saved.meta,
                   n |-> r.added, err |-> NoError, writes |-> 1]

\* clear on the instance and its two files
VecClear(w) ==
    LET saved == VecSave([w.st EXCEPT !.docs = <<>>, !.count = 0, !.dim = DimNone,
                                      !.index = IndexFlatIP(1)])
    IN  [st |-> saved.st, idx |-> saved.idx, meta |-> saved.meta]

RECURSIVE InRange(_, _)
\* the hits whose row is an index of docs (idx < 0 or idx >= len(docs) is skipped)
InRange(hits, ndocs) ==
    IF hits = <<>> THEN <<>>
    ELSE (IF Head(hits).row <= ndocs THEN <<Head(hits)>> ELSE <<>>)
             \o InRange(Tail(hits), ndocs)

\* index.search(qv, n): the n best rows by inner product, best first (fewer
\* when the index holds fewer: the labels -1 that pad the answer are skipped)
IndexSearch(index, qv, n) ==
    LET hits == SortDesc([i \in DOMAIN index.rows |->
                             [row |-> i, score |-> InnerProduct(qv, index.rows[i])]])
    IN  SubSeq(hits, 1, Min(n, Len(hits)))

\* VecSearch testing the query before it is stripped
VecSearchUnstripped(st, query, k, apiOk, width) ==
    IF st.docs = <<>> \/ st.index = NoIndex
    THEN [st |-> st, out |-> <<>>, err |-> NoError, embedded |-> FALSE]
    ELSE IF query = <<>>
    THEN [st |-> st, out |-> <<>>, err |-> NoError, embedded |-> FALSE]
    ELSE LET e == _embed(st, <<Strip(query)>>, apiOk, width)
             hits == InRange(IndexSearch(e.st.index, e.arr.rows[1], Max(1, k)),
                             Len(e.st.docs))
         IN  IF e.err # NoError
             THEN [st |-> e.st, out |-> <<>>, err |-> e.err, embedded |-> st.client]
             ELSE IF e.arr.d # e.st.index.d
             THEN [st |-> e.st, out |-> <<>>, err |-> ErrDim, embedded |-> TRUE]
             ELSE [st |-> e.st,
                   out |-> [i \in DOMAIN hits |->
                              [id |-> e.st.docs[hits[i].row].id,
                               text |-> e.st.docs[hits[i].row].text,
                               metadata |-> e.st.docs[hits[i].row].metadata,
                               score |-> hits[i].score]],
                   err |-> NoError, embedded |-> TRUE]

\* search: [st, out, err, embedded]; embedded is whether the embeddings API
\* was called
VecSearch(st, query, k, apiOk, width) ==
    IF st.docs = <<>> \/ st.index = NoIndex
    THEN [st |-> st, out |-> <<>>, err |-> NoError, embedded |-> FALSE]
    ELSE IF Strip(query) = <<>>
    THEN [st |-> st, out |-> <<>>, err |-> NoError, embedded |-> FALSE]
    ELSE LET e == _embed(st, <<Strip(query)>>, apiOk, width)
             hits == InRange(IndexSearch(e.st.index, e.arr.rows[1], Max(1, k)),
                             Len(e.st.docs))
         IN  IF e.err # NoError
             THEN [st |-> e.st, out |-> <<>>, err |-> e.err, embedded |-> st.client]
             ELSE IF e.arr.d # e.st.index.d
             THEN [st |-> e.st, out |-> <<>>, err |-> ErrDim, embedded |-> TRUE]
             ELSE [st |-> e.st,
                   out |-> [i \in DOMAIN hits |->
                              [id |-> e.st.docs[hits[i].row].id,
                               text |-> e.st.docs[hits[i].row].text,
                               metadata |-> e.st.docs[hits[i].row].metadata,
                               score |-> hits[i].score]],
                   err |-> NoError, embedded |-> TRUE]

\* _read_legacy_lexical_json: [texts, metas], both empty when anything raises
_read_legacy_lexical_json(file) ==
    IF file = Unparseable THEN [texts |-> <<>>, metas |-> <<>>]
    ELSE LET docs == Get(file, "docs", <<>>)
         IN  [texts |-> [i \in DOMAIN docs |-> Get(docs[i], "text", <<>>)],
              metas |-> [i \in DOMAIN docs |-> Get(docs[i], "metadata", EmptyDict)]]

\* whether the try block of _load_or_init runs to its return
VecLoadable(idx, meta) ==
    /\ idx # Absent /\ meta # Absent
    /\ idx # Unparseable /\ meta # Unparseable
    /\ \A i \in DOMAIN Get(meta, "docs", <<>>) : "id" \in DOMAIN meta.docs[i]

\* the instance the try block of _load_or_init leaves
VecLoad(st, idx, meta) ==
    [st EXCEPT !.meta = Get(meta, "meta", st.meta),
               !.dim = Get(meta, "dim", DimNone),
               !.docs = [i \in DOMAIN Get(meta, "docs", <<>>) |->
                           [id |-> meta.docs[i].id,
                            text |-> Get(meta.docs[i], "text", <<>>),
                            metadata |-> Get(meta.docs[i], "metadata", EmptyDict)]],
               !.count = Len(Get(meta, "docs", <<>>)),
               !.index = idx]

\* FaissVectorStore migrating the legacy file into the store it has loaded
FaissVectorStoreRemigrating(api_key, idx, meta, legacy, failAt, width) ==
    LET old == _read_legacy_lexical_json(legacy)
        fresh == [VecEmpty(api_key) EXCEPT !.meta =
                     IF idx # Absent /\ meta # Absent /\ meta # Unparseable
                     THEN Get(meta, "meta", @) ELSE @]
        st0 == IF VecLoadable(idx, meta) THEN VecLoad(VecEmpty(api_key), idx, meta)
               ELSE fresh
    IN  IF legacy # Absent /\ old.texts # <<>>
        THEN VecAddTexts([st |-> st0, idx |-> idx, meta |-> meta],
                         old.texts, old.metas, failAt, width)
        ELSE [st |-> st0, idx |-> idx, meta |-> meta, n |-> 0, err |-> NoError]

\* FaissVectorStore catching what the migration raises
FaissVectorStoreSwallowing(api_key, idx, meta, legacy, failAt, width) ==
    IF VecLoadable(idx, meta)
    THEN [st |-> VecLoad(VecEmpty(api_key), idx, meta), idx |-> idx, meta |-> meta,
          n |-> 0, err |-> NoError]
    ELSE LET old == _read_legacy_lexical_json(legacy)
             fresh == [VecEmpty(api_key) EXCEPT !.meta =
                          IF idx # Absent /\ meta # Absent /\ meta # Unparseable
                          THEN Get(meta, "meta", @) ELSE @]
             r == VecAddTexts([st |-> fresh, idx |-> idx, meta |-> meta],
                              old.texts, old.metas, failAt, width)
         IN  IF legacy # Absent /\ old.texts # <<>>
             THEN [st |-> r.st, idx |-> r.idx, meta |-> r.meta, n |-> r.n, err |-> NoError]
             ELSE [st |-> fresh, idx |-> idx, meta |-> meta, n |-> 0, err |-> NoError]

\* FaissVectorStore(index_path, meta_path, model, api_key, legacy_json):
\* [st, idx, meta, n, err]; err is what the constructor raises
FaissVectorStore(api_key, idx, meta, legacy, failAt, width) ==
    IF VecLoadable(idx, meta)
    THEN [st |-> VecLoad(VecEmpty(api_key), idx, meta), idx |-> idx, meta |-> meta,
          n |-> 0, err |-> NoError]
    ELSE LET old == _read_legacy_lexical_json(legacy)
             \* a failed load has assigned self.meta before it raised
             fresh == [VecEmpty(api_key) EXCEPT !.meta =
                          IF idx # Absent /\ meta # Absent /\ meta # Unparseable
                          THEN Get(meta, "meta", @) ELSE @]
         IN  IF legacy # Absent /\ old.texts # <<>>
             THEN VecAddTexts([st |-> fresh, idx |-> idx, meta |-> meta],
                              old.texts, old.metas, failAt, width)
             ELSE [st |-> fresh, idx |-> idx, meta |-> meta, n |-> 0, err |-> NoError]

\* Selector handing out whatever the constructor left, raised or not
SelectorWithoutFallback(api_key, lex, idx, meta, failAt, width) ==
    FaissVectorStore(api_key, idx, meta, lex, failAt, width)

\* _get_work_history_store of app/main.py: the vector store, or the lexical
\* store on the same file when constructing the vector store raises
Selector(api_key, lex, idx, meta, failAt, width) ==
    LET v == FaissVectorStore(api_key, idx, meta, lex, failAt, width)
    IN  IF v.err = NoError THEN v
        ELSE [st |-> LexicalVectorStore(lex), idx |-> idx, meta |-> meta,
              n |-> 0, err |-> NoError]

(***************************************************************************)
(* import_path.  A path is [exists, files]: the files import_path visits,  *)
(* in order, each [name, suffix, content].                                 *)
(***************************************************************************)
RECURSIVE SplitParagraphs(_, _)
\* text.split("\n\n"); cur is the piece being read
SplitParagraphs(text, cur) ==
    IF text = <<>> THEN <<cur>>
    ELSE IF Len(text) >= 2 /\ text[1] = "\n" /\ text[2] = "\n"
    THEN <<cur>> \o SplitParagraphs(SubSeq(text, 3, Len(text)), <<>>)
    ELSE SplitParagraphs(Tail(text), Append(cur, Head(text)))

RECURSIVE StripNonEmpty(_)
\* [c.strip() for c in pieces if c.strip()]
StripNonEmpty(pieces) ==
    IF pieces = <<>> THEN <<>>
    ELSE (IF Strip(Head(pieces)) = <<>> THEN <<>> ELSE <<Strip(Head(pieces))>>)
             \o StripNonEmpty(Tail(pieces))

\* the chunks of a .txt / .md file
TextChunks(content) == StripNonEmpty(SplitParagraphs(content, <<>>))

SourceMeta(f) == [source |-> f.name]

(***************************************************************************)
(* JSON as json.loads returns it: a string [t = "str", s], a list          *)
(* [t = "list", items], an object [t = "dict", f].  The text fields of an  *)
(* object hold texts, "metadata" and "chunks" hold JSON values, any other  *)
(* field an opaque scalar.  JBad stands for input json.loads raises on,    *)
(* JBlank for a line that strips to "".                                    *)
(***************************************************************************)
JBad == [t |-> "bad"]
JBlank == [t |-> "blank"]
JStr(s) == [t |-> "str", s |-> s]
JList(items) == [t |-> "list", items |-> items]
JDict(f) == [t |-> "dict", f |-> f]

\* bool(value) of a JSON value
Truthy(j) ==
    CASE j.t = "str" -> j.s # <<>>
      [] j.t = "list" -> j.items # <<>>
      [] j.t = "dict" -> DOMAIN j.f # {}
      [] OTHER -> FALSE

\* obj.get("text") or obj.get("content") or obj.get("chunk") or ""
TextOf(f) ==
    IF Get(f, "text", <<>>) # <<>> THEN f["text"]
    ELSE IF Get(f, "content", <<>>) # <<>> THEN f["content"]
    ELSE Get(f, "chunk", <<>>)

\* {k: v for k, v in obj.items() if k not in excluded}
RestOf(f, excluded) == [k \in DOMAIN f \ excluded |-> f[k]]

\* obj.get("metadata") or {the fields not excluded}, as a JSON value
MetaOf(f, excluded) ==
    IF "metadata" \in DOMAIN f /\ Truthy(f["metadata"]) THEN f["metadata"]
    ELSE JDict(RestOf(f, excluded))

\* {**meta, "source": str(f)} / meta["source"] = str(f)
WithSource(m, src) ==
    [k \in DOMAIN m \cup {"source"} |-> IF k = "source" THEN src ELSE m[k]]

RECURSIVE JsonlLines(_, _, _)
\* the .jsonl loop of the stores' import_path: the texts and the metadatas it
\* collects, in order.  A line that raises is skipped; textFirst says that the
\* text is appended before the metadata is built (the vector store's batch),
\* so that a metadata that is no mapping leaves its text behind
JsonlLines(lines, src, textFirst) ==
    IF lines = <<>> THEN [texts |-> <<>>, metas |-> <<>>]
    ELSE LET l == Head(lines)
             rest == JsonlLines(Tail(lines), src, textFirst)
             meta == MetaOf(l.f, {"text", "content", "chunk"})
         IN  IF l.t # "dict" THEN rest
             ELSE IF TextOf(l.f) = <<>> THEN rest
             ELSE IF meta.t # "dict"
                  THEN [texts |-> (IF textFirst THEN <<TextOf(l.f)>> ELSE <<>>) \o rest.texts,
                        metas |-> rest.metas]
             ELSE [texts |-> <<TextOf(l.f)>> \o rest.texts,
                   metas |-> <<WithSource(meta.f, src)>> \o rest.metas]

RECURSIVE JsonItems(_, _)
\* the loop of the .json branch over the items of a list: [texts, metas, err],
\* err when meta["source"] = ... raises on a metadata that is no mapping
JsonItems(items, src) ==
    IF items = <<>> THEN [texts |-> <<>>, metas |-> <<>>, err |-> FALSE]
    ELSE LET it == Head(items)
             rest == JsonItems(Tail(items), src)
             meta == MetaOf(it.f, {"text", "content", "chunk", "metadata"})
         IN  IF it.t = "str"
             THEN [texts |-> <<it.s>> \o rest.texts,
                   metas |-> <<[source |-> src]>> \o rest.metas, err |-> rest.err]
             ELSE IF it.t # "dict" THEN rest
             ELSE IF TextOf(it.f) = <<>> THEN rest
             ELSE IF meta.t # "dict" THEN [texts |-> <<>>, metas |-> <<>>, err |-> TRUE]
             ELSE [texts |-> <<TextOf(it.f)>> \o rest.texts,
                   metas |-> <<WithSource(meta.f, src)>> \o rest.metas, err |-> rest.err]

\* the .json branch up to its add_texts: [texts, metas, err]
JsonFile(data, src) ==
    CASE data.t = "bad" -> [texts |-> <<>>, metas |-> <<>>, err |-> TRUE]
      [] data.t = "list" -> JsonItems(data.items, src)
      [] data.t = "dict" ->
            IF "chunks" \in DOMAIN data.f /\ data.f["chunks"].t = "list"
            THEN JsonItems(data.f["chunks"].items, src)
            ELSE [texts |-> <<>>, metas |-> <<>>, err |-> FALSE]
      [] OTHER -> [texts |-> <<>>, metas |-> <<>>, err |-> FALSE]

\* one [texts, metas] per text of a list
OneByOne(c) == [i \in 1..Min(Len(c.texts), Len(c.metas)) |->
                   [texts |-> <<c.texts[i]>>, metas |-> <<c.metas[i]>>]]

\* what the body of the loop of import_path does with one file: the add_texts
\* calls it makes, in order, and whether an exception reaches its except
\* clause before any of them.  perLine: the lexical store adds each .jsonl
\* line on its own, the vector store one batch per file
FileCalls(f, perLine) ==
    CASE f.suffix \in {".txt", ".md"} ->
            [calls |-> <<[texts |-> TextChunks(f.content),
                          metas |-> [i \in DOMAIN TextChunks(f.content) |-> SourceMeta(f)]]>>,
             err |-> FALSE]
      [] f.suffix = ".jsonl" ->
            LET c == JsonlLines(f.content, f.name, ~perLine)
            IN  [calls |-> IF perLine THEN OneByOne(c)
                           ELSE IF c.texts = <<>> THEN <<>> ELSE <<c>>,
                 err |-> FALSE]
      [] f.suffix = ".json" ->
            LET c == JsonFile(f.content, f.name)
            IN  [calls |-> IF c.err \/ c.texts = <<>> THEN <<>>
                           ELSE <<[texts |-> c.texts, metas |-> c.metas]>>,
                 err |-> c.err]
      [] OTHER -> [calls |-> <<>>, err |-> FALSE]

SUPPORTED_IMPORT_SUFFIXES == {".txt", ".md", ".json", ".jsonl"}

\* files of import_path: the supported files under a directory, or the path
\* itself
ImportFiles(path) ==
    IF path.is_dir
    THEN SelectSeq(path.files, LAMBDA f : f.suffix \in SUPPORTED_IMPORT_SUFFIXES)
    ELSE path.files

RECURSIVE VecImportFiles(_, _, _, _, _, _)
\* the loop of import_path over files: an exception of add_texts is logged
\* (logged says whether one was) and the loop goes on with the next file
VecImportFiles(w, files, total, logged, failAt, width) ==
    IF files = <<>> THEN [st |-> w.st, idx |-> w.idx, meta |-> w.meta, n |-> total,
                          err |-> NoError, logged |-> logged]
    ELSE LET c == FileCalls(Head(files), FALSE)
             \* r ranges over the one result of add_texts on this file
             rest == {VecImportFiles([st |-> r.st, idx |-> r.idx, meta |-> r.meta],
                                     Tail(files), total + r.n,
                                     logged \/ c.err \/ r.err # NoError, failAt, width) :
                      r \in {IF c.calls = <<>>
                             THEN [st |-> w.st, idx |-> w.idx, meta |-> w.meta,
                                   n |-> 0, err |-> NoError]
                             ELSE VecAddTexts(w, c.calls[1].texts, c.calls[1].metas,
                                              failAt, width)}}
         IN  CHOOSE res \in rest : TRUE

\* FaissVectorStore.import_path: [st, idx, meta, n, err, logged]
VecImportPath(w, path, failAt, width) ==
    IF ~path.exists
    THEN [st |-> w.st, idx |-> w.idx, meta |-> w.meta, n |-> 0, err |-> ErrNotFound,
          logged |-> FALSE]
    ELSE VecImportFiles(w, ImportFiles(path), 0, FALSE, failAt, width)

RECURSIVE LexCalls(_, _)
\* the lexical store after the add_texts calls of one file
LexCalls(st, calls) ==
    IF calls = <<>> THEN st
    ELSE LexCalls(LexAddTexts(st, Head(calls).texts, Head(calls).metas), Tail(calls))

RECURSIVE CallCount(_)
\* the sum of what the add_texts calls return
CallCount(calls) ==
    IF calls = <<>> THEN 0
    ELSE Min(Len(Head(calls).texts), Len(Head(calls).metas)) + CallCount(Tail(calls))

RECURSIVE LexImportFiles(_, _, _, _)
\* the loop of LexicalVectorStore.import_path: [st, n, saved]; saved says
\* that add_texts, and with it _save, has run
LexImportFiles(st, files, total, saved) ==
    IF files = <<>> THEN [st |-> st, n |-> total, err |-> NoError, saved |-> saved]
    ELSE LET c == FileCalls(Head(files), TRUE)
         IN  LexImportFiles(LexCalls(st, c.calls), Tail(files),
                            total + CallCount(c.calls), saved \/ c.calls # <<>>)

\* LexImportPath without the test of path.exists()
LexImportPathUnchecked(st, path) == LexImportFiles(st, ImportFiles(path), 0, FALSE)

\* LexicalVectorStore.import_path: [st, n, err, saved]
LexImportPath(st, path) ==
    IF ~path.exists THEN [st |-> st, n |-> 0, err |-> ErrNotFound, saved |-> FALSE]
    ELSE LexImportFiles(st, ImportFiles(path), 0, FALSE)

(***************************************************************************)
(* The Importer of app/utils/import_helpers.py.                            *)
(***************************************************************************)
\* _select_text_field: the first non-empty text field
_select_text_field(f) == TextOf(f)

\* _build_metadata
_build_metadata(f, src) ==
    WithSource(IF "metadata" \in DOMAIN f /\ f["metadata"].t = "dict"
               THEN f["metadata"].f
               ELSE RestOf(f, {"text", "content", "chunk", "metadata"}), src)

RECURSIVE _iter_json_chunks(_, _)
RECURSIVE IterItems(_, _)
\* _iter_json_chunks: the [text, meta] pairs of a JSON value, in order
_iter_json_chunks(data, src) ==
    CASE data.t = "str" -> <<[text |-> data.s, meta |-> [source |-> src]]>>
      [] data.t = "list" -> IterItems(data.items, src)
      [] data.t = "dict" ->
            IF "chunks" \in DOMAIN data.f /\ data.f["chunks"].t = "list"
            THEN IterItems(data.f["chunks"].items, src)
            ELSE IF _select_text_field(data.f) # <<>>
            THEN <<[text |-> _select_text_field(data.f),
                    meta |-> _build_metadata(data.f, src)]>>
            ELSE <<>>
      [] OTHER -> <<>>

\* for item in items: yield from _iter_json_chunks(item, source)
IterItems(items, src) ==
    IF items = <<>> THEN <<>>
    ELSE _iter_json_chunks(Head(items), src) \o IterItems(Tail(items), src)

\* read_import_file: the [text, meta] pairs of one file
read_import_file(f) ==
    CASE f.suffix \in {".txt", ".md"} ->
            [i \in DOMAIN TextChunks(f.content) |->
                [text |-> TextChunks(f.content)[i], meta |-> SourceMeta(f)]]
      [] f.suffix = ".jsonl" -> IterItems(f.content, f.name)
      [] f.suffix = ".json" -> _iter_json_chunks(f.content, f.name)
      [] OTHER -> <<>>

\* gather_import_files
gather_import_files(path) ==
    SelectSeq(path.files, LAMBDA f : f.suffix \in SUPPORTED_IMPORT_SUFFIXES)

RECURSIVE ReadAll(_)
\* the chunks of the files in order
ReadAll(files) ==
    IF files = <<>> THEN <<>> ELSE read_import_file(Head(files)) \o ReadAll(Tail(files))

(***************************************************************************)
(* The state: the configuration, the three files beside the corpus anchor, *)
(* the store instance the caller holds, and the last call with its result. *)
(***************************************************************************)
VARIABLES
    api_key,    \* OPENAI_API_KEY is set (app/config.py)
    width,      \* the width of the vectors OPENAI_EMBEDDING_MODEL returns
    lexFile,    \* work_history.json: the lexical snapshot, the vector store's legacy_json
    idxFile,    \* work_history.faiss
    metaFile,   \* work_history_meta.json
    store,      \* the instance held, or NoStore
    ret,        \* the last call: [op, args, before, out, n, err, embedded]
    raised,     \* history: an add_texts or search of the instance held has raised
    peer,       \* a second instance on the same files, or NoStore
    pend,       \* the instances whose _save has written the index and not yet the sidecar
    wrote       \* history: the instance (1 store, 2 peer) that last wrote each file, 0 for none

vars == <<api_key, width, lexFile, idxFile, metaFile, store, ret, raised, peer, pend, wrote>>

\* the inputs the calls are given
TextCat == <<"a", " ", "b">>
TextDog == <<"B", "-", "b", " ", "c">>
DocTexts == {<<>>, TextCat, TextDog}
Metas == {EmptyDict, [topic |-> "x"]}
Queries == {<<>>, <<" ">>, <<"a">>, <<"C", " ", "b">>, <<"z">>}
Ks == 0..MaxK

SeqsUpTo(S, n) == UNION {[1..m -> S] : m \in 0..n}

\* the (texts, metadatas) of one add_texts call: metadatas as long as texts,
\* or shorter
Calls(T, M) ==
    {c \in SeqsUpTo(T, MaxCall) \X SeqsUpTo(M, MaxCall) : Len(c[2]) <= Len(c[1])}

TxtTwo == [name |-> "notes.txt", suffix |-> ".txt",
           content |-> <<"a", "\n", "\n", " ", "b", " ">>]
TxtBlank == [name |-> "blank.md", suffix |-> ".md", content |-> <<" ", "\n", "\n">>]
Paths == {[exists |-> FALSE, is_dir |-> FALSE, files |-> <<>>],
          [exists |-> TRUE, is_dir |-> TRUE, files |-> <<TxtBlank>>],
          [exists |-> TRUE, is_dir |-> TRUE, files |-> <<TxtBlank, TxtTwo>>]}

\* files with JSON in them
JsonlMixed == [name |-> "data.jsonl", suffix |-> ".jsonl",
               content |-> <<JDict([text |-> <<"a">>, topic |-> "x"]), JBad, JBlank,
                             JDict([content |-> <<"c">>])>>]
JsonlOdd == [name |-> "odd.jsonl", suffix |-> ".jsonl",
             content |-> <<JDict([text |-> <<"a">>, metadata |-> JStr(<<"x">>)]),
                           JStr(<<"b">>),
                           JDict([chunk |-> <<"c">>,
                                  metadata |-> JDict([topic |-> "x"])])>>]
JsonList == [name |-> "list.json", suffix |-> ".json",
             content |-> JList(<<JStr(<<"a">>),
                                 JDict([text |-> <<>>, content |-> <<"b">>,
                                        metadata |-> JDict([topic |-> "x"])]),
                                 JList(<<JStr(<<"c">>)>>)>>)]
JsonWrapped == [name |-> "wrapped.json", suffix |-> ".json",
                content |-> JDict([chunks |-> JList(<<JStr(<<"a">>),
                                                      JDict([chunk |-> <<"b">>])>>)])]
JsonRecord == [name |-> "record.json", suffix |-> ".json",
               content |-> JDict([text |-> <<"a">>, topic |-> "x"])]
JsonBroken == [name |-> "broken.json", suffix |-> ".json", content |-> JBad]
Pdf == [name |-> "cv.pdf", suffix |-> ".pdf", content |-> <<>>]

\* the paths import_path is given: a missing one, directories (their files in
\* sorted order) and single files
ImportPaths ==
    <<[exists |-> FALSE, is_dir |-> FALSE, files |-> <<>>],
      [exists |-> TRUE, is_dir |-> TRUE, files |-> <<Pdf, JsonlMixed, TxtTwo>>],
      [exists |-> TRUE, is_dir |-> TRUE, files |-> <<TxtBlank, JsonlOdd>>],
      [exists |-> TRUE, is_dir |-> TRUE, files |-> <<JsonBroken, JsonList, JsonWrapped>>],
      [exists |-> TRUE, is_dir |-> FALSE, files |-> <<JsonRecord>>],
      [exists |-> TRUE, is_dir |-> FALSE, files |-> <<Pdf>>]>>

\* stats()["docs"]
StatsDocs(st) ==
    CASE st.kind = "lexical" -> st.doc_count
      [] st.kind = "vector" -> st.count
      [] OTHER -> 0

\* a call's record: its arguments, stats().docs before it, the list (out) or
\* the integer (n) it returned, the exception it raised, whether an add_texts
\* or a search called the embeddings API, and how often add_texts called _save
Ret(op) == [op |-> op, args |-> EmptyDict, before |-> StatsDocs(store), out |-> <<>>,
            n |-> 0, err |-> NoError, embedded |-> FALSE, writes |-> 0]

Init ==
    /\ api_key \in BOOLEAN
    /\ width \in EmbedWidths
    /\ lexFile = Absent
    /\ idxFile = Absent
    /\ metaFile = Absent
    /\ store = NoStore
    /\ ret = [Ret("init") EXCEPT !.before = 0]
    /\ raised = FALSE
    /\ peer = NoStore
    /\ pend = {}
    /\ wrote = [idx |-> 0, meta |-> 0]

\* the process is started again with the credential set or unset
Reconfigure ==
    /\ api_key' = ~api_key
    /\ store' = NoStore
    /\ ret' = Ret("configure")
    /\ raised' = FALSE
    /\ UNCHANGED <<width, lexFile, idxFile, metaFile, peer, pend, wrote>>

\* _get_work_history_store()
Resolve(failAt) ==
    LET r == Selector(api_key, lexFile, idxFile, metaFile, failAt, width)
    IN  /\ store' = r.st
        /\ idxFile' = r.idx
        /\ metaFile' = r.meta
        /\ ret' = [Ret("resolve") EXCEPT !.args = [failAt |-> failAt], !.n = r.n]
        /\ raised' = FALSE
        /\ UNCHANGED <<api_key, width, lexFile, peer, pend, wrote>>

\* vector_store.get_work_history_store(path)
NewLexical ==
    /\ store' = LexicalVectorStore(lexFile)
    /\ ret' = Ret("new_lexical")
    /\ raised' = FALSE
    /\ UNCHANGED <<api_key, width, lexFile, idxFile, metaFile, peer, pend, wrote>>

LexAdd(texts, metadatas) ==
    /\ store.kind = "lexical"
    /\ Len(store.docs) + Len(texts) <= MaxDocs
    /\ store.doc_count + Len(texts) <= MaxDocs
    /\ store' = LexAddTexts(store, texts, metadatas)
    /\ lexFile' = LexSave(store')
    /\ ret' = [Ret("add_texts") EXCEPT !.args = [texts |-> texts, metadatas |-> metadatas],
                                       !.n = Min(Len(texts), Len(metadatas))]
    /\ UNCHANGED <<api_key, width, idxFile, metaFile, raised, peer, pend, wrote>>

LexClearCall ==
    /\ store.kind = "lexical"
    /\ store' = LexClear(store)
    /\ lexFile' = LexSave(store')
    /\ ret' = Ret("clear")
    /\ UNCHANGED <<api_key, width, idxFile, metaFile, raised, peer, pend, wrote>>

LexSearchCall(query, k) ==
    /\ store.kind = "lexical"
    /\ ret' = [Ret("search") EXCEPT !.args = [query |-> query, k |-> k],
                                    !.out = LexSearch(store, query, k)]
    /\ UNCHANGED <<api_key, width, lexFile, idxFile, metaFile, store, raised, peer, pend, wrote>>

\* index.ntotal, 0 while there is no index
RowCount(st) == IF st.index = NoIndex THEN 0 ELSE Len(st.index.rows)

VecWorld == [st |-> store, idx |-> idxFile, meta |-> metaFile]

VecAdd(texts, metadatas, failAt) ==
    /\ store.kind = "vector"
    /\ Len(store.docs) + Len(texts) <= MaxDocs
    /\ RowCount(store) + Len(texts) <= MaxDocs
    /\ LET r == VecAddTexts(VecWorld, texts, metadatas, failAt, width)
       IN  /\ store' = r.st
           /\ idxFile' = r.idx
           /\ metaFile' = r.meta
           /\ ret' = [Ret("add_texts") EXCEPT
                         !.args = [texts |-> texts, metadatas |-> metadatas,
                                   failAt |-> failAt],
                         !.n = r.n, !.err = r.err, !.writes = r.writes,
                         !.embedded = store.client /\ texts # <<>>]
           /\ raised' = (raised \/ r.err # NoError)
    /\ UNCHANGED <<api_key, width, lexFile, peer, pend, wrote>>

VecClearCall ==
    /\ store.kind = "vector"
    /\ LET r == VecClear(VecWorld)
       IN  /\ store' = r.st
           /\ idxFile' = r.idx
           /\ metaFile' = r.meta
    /\ ret' = Ret("clear")
    /\ UNCHANGED <<api_key, width, lexFile, raised, peer, pend, wrote>>

VecSearchCall(query, k, apiOk) ==
    /\ store.kind = "vector"
    /\ LET r == VecSearch(store, query, k, apiOk, width)
       IN  /\ store' = r.st
           /\ ret' = [Ret("search") EXCEPT !.args = [query |-> query, k |-> k],
                                           !.out = r.out, !.err = r.err,
                                           !.embedded = r.embedded]
           /\ raised' = (raised \/ r.err # NoError)
    /\ UNCHANGED <<api_key, width, lexFile, idxFile, metaFile, peer, pend, wrote>>

\* import_path on a store that holds at most room documents
VecImport(path, failAt, room) ==
    /\ store.kind = "vector"
    /\ Len(store.docs) <= room
    /\ RowCount(store) <= room
    /\ LET r == VecImportPath(VecWorld, path, failAt, width)
       IN  /\ store' = r.st
           /\ idxFile' = r.idx
           /\ metaFile' = r.meta
           /\ ret' = [Ret("import_path") EXCEPT !.args = [path |-> path],
                                                !.n = r.n, !.err = r.err]
           /\ raised' = (raised \/ r.logged)
    /\ UNCHANGED <<api_key, width, lexFile, peer, pend, wrote>>

LexImport(path, room) ==
    /\ store.kind = "lexical"
    /\ Len(store.docs) <= room
    /\ LET r == LexImportPath(store, path)
       IN  /\ store' = r.st
           /\ lexFile' = IF r.saved THEN LexSave(r.st) ELSE lexFile
           /\ ret' = [Ret("import_path") EXCEPT !.args = [path |-> path],
                                                !.n = r.n, !.err = r.err]
    /\ UNCHANGED <<api_key, width, idxFile, metaFile, raised, peer, pend, wrote>>

LexNext(T, M, Q) ==
    \/ NewLexical
    \/ \E c \in Calls(T, M) : LexAdd(c[1], c[2])
    \/ LexClearCall
    \/ \E q \in Q, k \in Ks : LexSearchCall(q, k)

VecNext(T, M, Q) ==
    \/ \E c \in Calls(T, M), failAt \in 0..MaxCall : VecAdd(c[1], c[2], failAt)
    \/ VecClearCall
    \/ \E q \in Q, k \in Ks, apiOk \in BOOLEAN : VecSearchCall(q, k, apiOk)
    \/ \E p \in Paths, failAt \in 0..MaxCall : VecImport(p, failAt, MaxDocs - MaxCall)

\* the Selector and both stores, on one text, one metadata and three queries
Next ==
    \/ Reconfigure
    \/ \E failAt \in 0..MaxDocs : Resolve(failAt)
    \/ LexNext({TextCat}, {EmptyDict}, {<<" ">>, <<"a">>, <<"z">>})
    \/ VecNext({TextCat}, {EmptyDict}, {<<" ">>, <<"a">>, <<"z">>})

Spec == Init /\ [][Next]_vars

\* the lexical store alone
SpecLex == Init /\ [][LexNext(DocTexts, Metas, Queries)]_vars

\* a legacy file the lexical store wrote earlier
LegacyFiles == {Absent, LexSave(LexAddTexts(LexEmpty, <<TextCat>>, <<EmptyDict>>))}

InitVec ==
    /\ api_key \in BOOLEAN
    /\ width \in EmbedWidths
    /\ lexFile \in LegacyFiles
    /\ idxFile = Absent
    /\ metaFile = Absent
    /\ store = NoStore
    /\ ret = [Ret("init") EXCEPT !.before = 0]
    /\ raised = FALSE
    /\ peer = NoStore
    /\ pend = {}
    /\ wrote = [idx |-> 0, meta |-> 0]

VecSpecNext ==
    \/ Reconfigure
    \/ \E failAt \in 0..MaxDocs : Resolve(failAt)
    \/ VecNext({TextCat, TextDog}, {[topic |-> "x"]}, {<<>>, <<" ">>, <<"a">>})

\* the vector store behind the Selector, beside a legacy file
SpecVec == InitVec /\ [][VecSpecNext]_vars

\* import_path of both stores, on stores add_texts has filled or not
ImpNext ==
    \/ \E failAt \in 0..MaxCall : Resolve(failAt)
    \/ NewLexical
    \/ LexAdd(<<TextDog>>, <<[topic |-> "x"]>>)
    \/ LexClearCall
    \/ \E i \in DOMAIN ImportPaths : LexImport(ImportPaths[i], MaxBefore)
    \/ \E failAt \in 0..MaxCall : VecAdd(<<TextDog, TextCat>>, <<[topic |-> "x"], EmptyDict>>, failAt)
    \/ VecClearCall
    \/ \E i \in DOMAIN ImportPaths, failAt \in 0..MaxCall :
           VecImport(ImportPaths[i], failAt, MaxBefore)

SpecImp == Init /\ [][ImpNext]_vars

\* snapshots the lexical store wrote: one document, two documents
SnapOne == LexSave(LexAddTexts(LexEmpty, <<TextCat>>, <<EmptyDict>>))
SnapTwo == LexSave(LexAddTexts(LexEmpty, <<TextCat, TextDog>>, <<EmptyDict, EmptyDict>>))

\* a snapshot whose k-th docs entry has lost its "id"
WithoutId(file, k) ==
    [file EXCEPT !.docs[k] = [f \in DOMAIN file.docs[k] \ {"id"} |-> file.docs[k][f]]]

\* the files a lexical store may find at its path
SnapshotFiles == {Absent, Unparseable, SnapOne, WithoutId(SnapOne, 1), WithoutId(SnapTwo, 2)}

InitLoad ==
    /\ api_key \in BOOLEAN
    /\ width \in EmbedWidths
    /\ lexFile \in SnapshotFiles
    /\ idxFile = Absent
    /\ metaFile = Absent
    /\ store = NoStore
    /\ ret = [Ret("init") EXCEPT !.before = 0]
    /\ raised = FALSE
    /\ peer = NoStore
    /\ pend = {}
    /\ wrote = [idx |-> 0, meta |-> 0]

\* the lexical store constructed on a file that loads, fails to load, or is
\* not there
SpecLoad == InitLoad /\ [][LexNext({TextCat}, {EmptyDict}, {<<"a">>, <<"z">>})]_vars

(***************************************************************************)
(* Two instances on the same files (two requests, or two processes): store *)
(* is instance 1 and peer instance 2.  Nothing in either store locks the   *)
(* files or reloads them before a write.                                   *)
(***************************************************************************)
Writers == {1, 2}

Held(who) == IF who = 1 THEN store ELSE peer

HeldNext(who) == IF who = 1 THEN store' ELSE peer'

Hold(who, st) ==
    IF who = 1 THEN store' = st /\ peer' = peer ELSE peer' = st /\ store' = store

\* LexWrite keeping the documents of the file the instance does not hold
LexWriteMerging(file, st) ==
    LET kept == SelectSeq(Get(file, "docs", <<>>),
                          LAMBDA d : \A i \in DOMAIN st.docs : st.docs[i].text # d.text)
    IN  [LexSave(st) EXCEPT !.docs = kept \o @]

\* self.path.write_text(json.dumps(payload)) of _save: the file is replaced
\* whole, whatever it held
LexWrite(file, st) == LexSave(st)

\* LexicalVectorStore(path) by one of the instances
WriterNewLexical(who) ==
    /\ Hold(who, LexicalVectorStore(lexFile))
    /\ ret' = [Ret("writer.new_lexical") EXCEPT !.args = [who |-> who]]
    /\ UNCHANGED <<api_key, width, lexFile, idxFile, metaFile, raised, pend, wrote>>

\* add_texts of one of the lexical instances
WriterLexAdd(who, texts, metadatas) ==
    /\ Held(who).kind = "lexical"
    /\ Len(Held(who).docs) + Len(texts) <= MaxDocs
    /\ Hold(who, LexAddTexts(Held(who), texts, metadatas))
    /\ lexFile' = LexWrite(lexFile, HeldNext(who))
    /\ ret' = [Ret("writer.lex_add") EXCEPT
                  !.args = [who |-> who, texts |-> texts, metadatas |-> metadatas],
                  !.n = Min(Len(texts), Len(metadatas))]
    /\ UNCHANGED <<api_key, width, idxFile, metaFile, raised, pend, wrote>>

LexWritersNext ==
    \/ \E who \in Writers : WriterNewLexical(who)
    \/ \E who \in Writers, t \in {TextCat, TextDog} : WriterLexAdd(who, <<t>>, <<EmptyDict>>)

\* two lexical instances on one snapshot file
SpecLexWriters == Init /\ [][LexWritersNext]_vars

\* SaveSidecar writing the index again with the sidecar, as under a lock
SaveSidecarLocked(w, st) == [idx |-> VecSave(st).idx, meta |-> VecSave(st).meta]

\* the second write of _save, self.meta_path.write_text(...): [idx, meta],
\* the files after it; the index file is left as it is found
SaveSidecar(w, st) == [idx |-> w.idx, meta |-> VecSave(st).meta]

\* FaissVectorStore(...) by one of the instances, not while it is in _save
WriterConstruct(who) ==
    /\ who \notin pend
    /\ LET r == FaissVectorStore(api_key, idxFile, metaFile, lexFile, 0, width)
       IN  /\ r.err = NoError
           /\ Hold(who, r.st)
           /\ idxFile' = r.idx
           /\ metaFile' = r.meta
    /\ ret' = [Ret("writer.construct") EXCEPT !.args = [who |-> who]]
    /\ UNCHANGED <<api_key, width, lexFile, raised, pend, wrote>>

\* add_texts of one of the vector instances up to and including
\* faiss.write_index of its _save; a call that raises writes nothing
WriterAddToIndexFile(who, texts, metadatas) ==
    /\ Held(who).kind = "vector"
    /\ who \notin pend
    /\ Len(Held(who).docs) + Len(texts) <= MaxDocs
    /\ RowCount(Held(who)) + Len(texts) <= MaxDocs
    /\ LET r == VecAddTexts([st |-> Held(who), idx |-> idxFile, meta |-> metaFile],
                            texts, metadatas, 0, width)
       IN  /\ Hold(who, r.st)
           /\ idxFile' = r.idx
           /\ pend' = IF r.err = NoError THEN pend \cup {who} ELSE pend
           /\ wrote' = IF r.err = NoError THEN [wrote EXCEPT !.idx = who] ELSE wrote
           /\ ret' = [Ret("writer.add_texts") EXCEPT
                         !.args = [who |-> who, texts |-> texts, metadatas |-> metadatas],
                         !.n = r.n, !.err = r.err]
    /\ UNCHANGED <<api_key, width, lexFile, metaFile, raised>>

\* the rest of that _save: the sidecar is written from the instance
WriterSaveSidecar(who) ==
    /\ who \in pend
    /\ LET r == SaveSidecar([idx |-> idxFile, meta |-> metaFile], Held(who))
       IN  /\ idxFile' = r.idx
           /\ metaFile' = r.meta
    /\ pend' = pend \ {who}
    /\ wrote' = [wrote EXCEPT !.meta = who]
    /\ ret' = [Ret("writer.save_sidecar") EXCEPT !.args = [who |-> who]]
    /\ UNCHANGED <<api_key, width, lexFile, store, peer, raised>>

\* search of one of the vector instances, the embeddings call succeeding
WriterSearch(who, query, k) ==
    /\ Held(who).kind = "vector"
    /\ who \notin pend
    /\ LET r == VecSearch(Held(who), query, k, TRUE, width)
       IN  /\ Hold(who, r.st)
           /\ ret' = [Ret("writer.search") EXCEPT
                         !.args = [who |-> who, query |-> query, k |-> k],
                         !.out = r.out, !.err = r.err]
    /\ UNCHANGED <<api_key, width, lexFile, idxFile, metaFile, raised, pend, wrote>>

\* the calls the two vector instances make: one text, or two (two batches)
WriterCalls == {<<TextCat>>, <<TextDog, TextCat>>}

VecWritersNext ==
    \/ \E who \in Writers : WriterConstruct(who)
    \/ \E who \in Writers, c \in WriterCalls :
           WriterAddToIndexFile(who, c, [i \in DOMAIN c |-> EmptyDict])
    \/ \E who \in Writers : WriterSaveSidecar(who)
    \/ \E who \in Writers : WriterSearch(who, <<"b">>, 1)

\* two vector instances on one index/sidecar pair, the two writes of _save
\* being separate steps
SpecVecWriters == Init /\ [][VecWritersNext]_vars

(***************************************************************************)
(* The claims.                                                             *)
(***************************************************************************)
IsVec == store.kind = "vector"
IsLex == store.kind = "lexical"

\* C1: in every reachable state of a vector store the index has exactly
\* len(docs) rows and row i is the vector embedded from docs[i].text
C1_RowsParallelDocs ==
    IsVec =>
        /\ RowCount(store) = Len(store.docs)
        /\ \A i \in 1..Len(store.docs) :
               store.index.rows[i] = Embedding(store.docs[i].text)

\* C2: with no embedding credential configured, the store the Selector
\* resolves is a lexical store, and add_texts and search on the store held
\* do not raise the Unavailable error
C2_NoCredentialGivesWorkingLexical ==
    ~api_key =>
        /\ ret.op = "resolve" => IsLex
        /\ ret.op \in {"add_texts", "search"} => ~HasMarker(ret.err)

\* the store a new LexicalVectorStore on the same path would be
LexReloaded == LexicalVectorStore(lexFile)

\* C3: once the lexical store has written its file, a new store constructed
\* from the same path has the same doc_count, df and docs (id, text, metadata,
\* tfidf, norm, order), and so answers every search alike
C3_LexicalRoundTrip ==
    (IsLex /\ lexFile # Absent) =>
        /\ LexReloaded.doc_count = store.doc_count
        /\ LexReloaded.df = store.df
        /\ LexReloaded.docs = store.docs
        /\ \A q \in Queries, k \in Ks : LexSearch(LexReloaded, q, k) = LexSearch(store, q, k)

C3_Witness ==
    /\ IsLex
    /\ ret.op = "add_texts"
    /\ ret.before > 0
    /\ Len(store.docs) >= 2
    /\ store.docs[1].tfidf # EmptyDict
    /\ LexReloaded.docs = store.docs

\* the store a new FaissVectorStore on the same two files would be
VecReloaded == FaissVectorStore(api_key, idxFile, metaFile, lexFile, 0, width).st

\* C4: after add_texts and clear calls of a vector store none of which has
\* raised, the index file, once written, has one row per entry of the
\* sidecar's docs, in the same order, and a
\* new store constructed from the two files has the same docs, count and
\* row-to-document association
C4_VectorRoundTrip ==
    (IsVec /\ ~raised /\ ret.op \in {"add_texts", "clear"} /\ idxFile # Absent) =>
        /\ Len(idxFile.rows) = Len(metaFile.docs)
        /\ \A i \in 1..Len(metaFile.docs) :
               i <= Len(idxFile.rows) /\ idxFile.rows[i] = Embedding(metaFile.docs[i].text)
        /\ VecReloaded.docs = store.docs
        /\ VecReloaded.count = store.count
        /\ VecReloaded.index = store.index

\* a lexical store that is empty in memory and on disk: stats().docs is 0,
\* every search returns [], and so for a store constructed from its file
LexPersistedEmpty ==
    /\ StatsDocs(store) = 0
    /\ StatsDocs(LexReloaded) = 0
    /\ LexReloaded.docs = <<>>
    /\ \A q \in Queries, k \in Ks :
           LexSearch(store, q, k) = <<>> /\ LexSearch(LexReloaded, q, k) = <<>>

\* the same of a vector store and its two files
VecPersistedEmpty ==
    /\ StatsDocs(store) = 0
    /\ StatsDocs(VecReloaded) = 0
    /\ VecReloaded.docs = <<>>
    /\ \A q \in Queries, k \in Ks, apiOk \in BOOLEAN :
           /\ VecSearch(store, q, k, apiOk, width).out = <<>>
           /\ VecSearch(store, q, k, apiOk, width).err = NoError
           /\ VecSearch(VecReloaded, q, k, apiOk, width).out = <<>>
           /\ VecSearch(VecReloaded, q, k, apiOk, width).err = NoError

PersistedEmpty ==
    CASE IsLex -> LexPersistedEmpty
      [] IsVec -> VecPersistedEmpty
      [] OTHER -> FALSE

\* C5: for either backend, clear() leaves stats().docs at 0, every search
\* returning [] and the emptiness persisted (a store constructed from the
\* same files is empty too), and every search that follows returns [] and
\* keeps it so: only an add ends it
C5_ClearEmpties ==
    [][(ret'.op = "clear" \/ (PersistedEmpty /\ ret'.op = "search"))
           => /\ PersistedEmpty'
              /\ ret'.op = "search" => (ret'.out = <<>> /\ ret'.err = NoError)]_vars

C5_Witness ==
    /\ IsVec
    /\ ret.op = "clear"
    /\ ret.before > 0
    /\ lexFile # Absent
    /\ VecReloaded.docs = <<>>

\* C6: on a vector store whose embedding client is not configured, add_texts
\* with at least one text, and search with a non-blank query on a non-empty
\* store, raise an error carrying the marker, and leave docs, the document
\* count and the index and sidecar files unchanged
C6_UnavailableRaisesAndKeepsState ==
    [][(/\ IsVec
        /\ ~store.client
        /\ \/ ret'.op = "add_texts" /\ ret'.args.texts # <<>>
           \/ ret'.op = "search" /\ Strip(ret'.args.query) # <<>> /\ store.docs # <<>>)
           => /\ HasMarker(ret'.err)
              /\ store'.docs = store.docs
              /\ store'.count = store.count
              /\ idxFile' = idxFile
              /\ metaFile' = metaFile]_vars

C6_Witness ==
    /\ IsVec
    /\ ~store.client
    /\ store.docs # <<>>
    /\ ret.op = "search"
    /\ HasMarker(ret.err)

\* the number of chunks import_path reads under a path
RECURSIVE FileChunks(_)
FileChunks(files) ==
    IF files = <<>> THEN 0
    ELSE (IF Head(files).suffix \in {".txt", ".md"}
          THEN Len(TextChunks(Head(files).content)) ELSE 0) + FileChunks(Tail(files))

\* C7: import_path on a vector store whose embedding client is not
\* configured, for a path that yields at least one chunk, raises the
\* Unavailable error with its marker
C7_ImportSurfacesUnavailable ==
    (/\ IsVec
     /\ ~store.client
     /\ ret.op = "import_path"
     /\ ret.args.path.exists
     /\ FileChunks(ret.args.path.files) > 0) => HasMarker(ret.err)

\* C8: vector search returns [] without raising and without calling the
\* embedding API when the store holds no documents or the query is empty or
\* only whitespace, whether or not the client is configured
C8_EmptySearchIsQuiet ==
    (IsVec /\ ret.op = "search" /\ (store.docs = <<>> \/ Strip(ret.args.query) = <<>>))
        => (ret.out = <<>> /\ ret.err = NoError /\ ~ret.embedded)

C8_Witness ==
    /\ IsVec
    /\ ~store.client
    /\ store.docs # <<>>
    /\ ret.op = "search"
    /\ ret.args.query = <<" ">>
    /\ ret.out = <<>>
    /\ ret.err = NoError

Shares(text, query) == TokenSet(text) \cap TokenSet(query) # {}

\* C9: lexical search returns a document only if its token set shares a
\* term with the query's: a document sharing none scores exactly 0 and is not
\* in the results, every returned score is > 0, and a query without tokens
\* returns []
C9_OnlySharedTermsMatch ==
    (IsLex /\ ret.op = "search") =>
        /\ \A j \in DOMAIN ret.out :
               ret.out[j].score > 0 /\ Shares(ret.out[j].text, ret.args.query)
        /\ \A i \in DOMAIN store.docs :
               ~Shares(store.docs[i].text, ret.args.query) =>
                   /\ LexScores(store, ret.args.query)[i] = 0
                   /\ \A j \in DOMAIN ret.out : ret.out[j].id # store.docs[i].id
        /\ TokenSet(ret.args.query) = {} => ret.out = <<>>

C9_Witness ==
    /\ IsLex
    /\ ret.op = "search"
    /\ Len(store.docs) = 2
    /\ Len(ret.out) = 1
    /\ \E i \in DOMAIN store.docs :
           TokenSet(store.docs[i].text) # {} /\ ~Shares(store.docs[i].text, ret.args.query)

\* the number of stored documents that score > 0 against the query
Matching(query) ==
    Cardinality({i \in DOMAIN store.docs : LexScores(store, query)[i] > 0})

\* the results are stored documents with their scores, in non-increasing
\* score order, and no document left out scores higher than one returned
BestFirst ==
    /\ \A j \in DOMAIN ret.out :
           \E i \in DOMAIN store.docs :
               /\ store.docs[i].id = ret.out[j].id
               /\ store.docs[i].text = ret.out[j].text
               /\ LexScores(store, ret.args.query)[i] = ret.out[j].score
    /\ \A j \in 1..(Len(ret.out) - 1) : ret.out[j].score >= ret.out[j + 1].score
    /\ \A i \in DOMAIN store.docs :
           (\A j \in DOMAIN ret.out : ret.out[j].id # store.docs[i].id) =>
               \A j \in DOMAIN ret.out : LexScores(store, ret.args.query)[i] <= ret.out[j].score

\* C10 as stated: for every k >= 0 the result has exactly min(k, m) entries,
\* m the number of documents scoring > 0, the highest-scoring ones in
\* non-increasing score order
C10_TopK_AsStated ==
    (IsLex /\ ret.op = "search") =>
        /\ Len(ret.out) = Min(ret.args.k, Matching(ret.args.query))
        /\ BestFirst

\* C10, amended: for every k >= 0 the result has exactly min(max(1, k), m)
\* entries, the highest-scoring ones in non-increasing score order
C10_TopK ==
    (IsLex /\ ret.op = "search") =>
        /\ Len(ret.out) = Min(Max(1, ret.args.k), Matching(ret.args.query))
        /\ BestFirst

C10_Witness ==
    /\ IsLex
    /\ ret.op = "search"
    /\ ret.args.k = 1
    /\ Matching(ret.args.query) = 2
    /\ Len(ret.out) = 1
    /\ \E i \in DOMAIN store.docs :
           /\ store.docs[i].id # ret.out[1].id
           /\ 0 < LexScores(store, ret.args.query)[i]
           /\ LexScores(store, ret.args.query)[i] < ret.out[1].score

\* the chunks a file holds for import_path: its non-empty paragraphs, or its
\* .jsonl lines that are objects with a non-empty text
RECURSIVE TextLines(_)
TextLines(lines) ==
    IF lines = <<>> THEN 0
    ELSE (IF Head(lines).t = "dict" /\ TextOf(Head(lines).f) # <<>> THEN 1 ELSE 0)
             + TextLines(Tail(lines))

RECURSIVE ExpectedChunks(_)
ExpectedChunks(files) ==
    IF files = <<>> THEN 0
    ELSE (CASE Head(files).suffix \in {".txt", ".md"} -> Len(TextChunks(Head(files).content))
            [] Head(files).suffix = ".jsonl" -> TextLines(Head(files).content)
            [] OTHER -> 0) + ExpectedChunks(Tail(files))

NoJsonFile(files) == \A i \in DOMAIN files : files[i].suffix # ".json"

ImportedDir ==
    /\ ret.op = "import_path"
    /\ ret.args.path.exists
    /\ ret.args.path.is_dir
    /\ NoJsonFile(ret.args.path.files)

\* C11: import_path of the lexical store on a directory of .txt/.md and
\* .jsonl files adds one chunk per non-empty paragraph and one per well-formed
\* .jsonl line with a non-empty text, a malformed line adding none and
\* stopping nothing, and returns the number added
C11_ImportAddsEveryChunk ==
    (IsLex /\ ImportedDir) =>
        /\ ret.n = ExpectedChunks(ret.args.path.files)
        /\ Len(store.docs) = ret.before + ret.n

\* C12: import_path on a path that does not exist raises FileNotFoundError
\* for either backend and leaves the store, its statistics and its files as
\* they were
C12_MissingPathRaisesNotFound ==
    [][(ret'.op = "import_path" /\ ~ret'.args.path.exists)
           => /\ ret'.err = ErrNotFound
              /\ store' = store
              /\ StatsDocs(store') = StatsDocs(store)
              /\ lexFile' = lexFile
              /\ idxFile' = idxFile
              /\ metaFile' = metaFile]_vars

C12_Witness ==
    /\ IsLex
    /\ store.docs # <<>>
    /\ ret.op = "import_path"
    /\ ~ret.args.path.exists
    /\ ret.err = ErrNotFound

\* the id, text and metadata of the documents of a store
DocsOf(st) ==
    [i \in DOMAIN st.docs |->
        [id |-> st.docs[i].id, text |-> st.docs[i].text, metadata |-> st.docs[i].metadata]]

IsPrefix(a, b) ==
    /\ Len(a) <= Len(b)
    /\ \A i \in DOMAIN a :
           a[i].id = b[i].id /\ a[i].text = b[i].text /\ a[i].metadata = b[i].metadata

\* C13: for either backend every add_texts and import_path call, raising or
\* not, keeps the documents held before as a prefix of the documents held
\* after, id, text and metadata unchanged; clear() removes all of them
C13_AppendOnly ==
    [][/\ ret'.op \in {"add_texts", "import_path"} => IsPrefix(DocsOf(store), DocsOf(store'))
       /\ ret'.op = "clear" => store'.docs = <<>>]_vars

C13_Witness ==
    /\ IsVec
    /\ ret.op = "import_path"
    /\ ret.before > 0
    /\ Len(store.docs) > ret.before

\* C14: in every reachable state of either store docs[i].id is "d" followed
\* by the position of the document counted from 1, so ids are unique
C14_SequentialIds ==
    (IsLex \/ IsVec) => \A i \in DOMAIN store.docs : store.docs[i].id = DocId(i)

\* the id, text and metadata of the documents a lexical snapshot holds
PersistedDocs(file) ==
    LET docs == IF file = Absent THEN <<>> ELSE Get(file, "docs", <<>>)
    IN  [i \in DOMAIN docs |->
            [id |-> docs[i].id, text |-> docs[i].text, metadata |-> docs[i].metadata]]

\* C15: a resolution whose FaissVectorStore constructor raises returns the
\* lexical store on the same file, holding the documents persisted in it,
\* and leaves that file alone; a resolution whose constructor returns gives
\* the vector store, whatever earlier resolutions fell back to
C15_FallbackPerResolution ==
    [][ret'.op = "resolve" =>
          IF FaissVectorStore(api_key, idxFile, metaFile, lexFile,
                              ret'.args.failAt, width).err # NoError
          THEN /\ store'.kind = "lexical"
               /\ DocsOf(store') = PersistedDocs(lexFile)
               /\ lexFile' = lexFile
          ELSE store'.kind = "vector"]_vars

C15_Witness ==
    /\ IsLex
    /\ ret.op = "resolve"
    /\ api_key
    /\ store.docs # <<>>
    /\ DocsOf(store) = PersistedDocs(lexFile)

\* C16: for every path, the chunks import_path of either store adds are, in
\* order, those read_import_file yields for the files of
\* gather_import_files(path), and the count returned is their number
C16_ImportDelegates ==
    (/\ ret.op = "import_path"
     /\ ret.args.path.exists
     /\ IsLex \/ (IsVec /\ ~raised)) =>
        LET chunks == ReadAll(gather_import_files(ret.args.path))
            added == SubSeq(store.docs, ret.before + 1, Len(store.docs))
        IN  /\ ret.n = Len(chunks)
            /\ Len(added) = Len(chunks)
            /\ \A i \in DOMAIN chunks :
                   added[i].text = chunks[i].text /\ added[i].metadata = chunks[i].meta

\* the number of stored documents whose token set contains t
DocsWith(t) ==
    Cardinality({i \in DOMAIN store.docs : t \in TokenSet(store.docs[i].text)})

\* the distinct terms across the stored documents
Vocabulary == UNION {TokenSet(store.docs[i].text) : i \in DOMAIN store.docs}

\* stats()["vocab_size"]
StatsVocab(st) == Cardinality(DOMAIN st.df)

\* C17: after any sequence of add_texts and clear calls on a lexical store,
\* df[t] is the number of stored documents whose token set contains t, so
\* 1 <= df[t] <= doc_count and idf is strictly positive for every term of df,
\* and stats().vocab_size is the number of distinct terms stored
C17_DocumentFrequency ==
    IsLex =>
        /\ DOMAIN store.df = Vocabulary
        /\ \A t \in DOMAIN store.df :
               /\ store.df[t] = DocsWith(t)
               /\ 1 <= store.df[t]
               /\ store.df[t] <= store.doc_count
               /\ Idf(store.df, store.doc_count, t) > 0
        /\ StatsVocab(store) = Cardinality(Vocabulary)

C17_Witness ==
    /\ IsLex
    /\ store.doc_count = 2
    /\ \E t \in DOMAIN store.df :
           /\ store.df[t] = 1
           /\ \E i \in DOMAIN store.docs : Get(TermCounts(store.docs[i].text), t, 0) = 2

RECURSIVE OneAtATime(_, _, _)
\* add_texts called once per text, in order
OneAtATime(st, texts, metadatas) ==
    IF texts = <<>> THEN st
    ELSE OneAtATime(LexAddTexts(st, <<Head(texts)>>, <<Head(metadatas)>>),
                    Tail(texts), Tail(metadatas))

\* the lists of texts of one call, each with a metadata per text
EvenCalls == {c \in Calls({TextCat, TextDog}, {EmptyDict}) : Len(c[1]) = Len(c[2])}

\* C18: every stored document of a lexical store carries the weights and the
\* norm computed from the current df and doc_count, and adding a list of
\* texts in one add_texts call, in two consecutive calls split anywhere, or
\* one text per call, yields the same ids, df, doc_count, tfidf and norms
C18_FullRecompute ==
    IsLex =>
        /\ store = _recompute_tfidf(store)
        /\ \A c \in EvenCalls :
               /\ OneAtATime(store, c[1], c[2]) = LexAddTexts(store, c[1], c[2])
               /\ \A j \in 0..Len(c[1]) :
                      LexAddTexts(LexAddTexts(store, SubSeq(c[1], 1, j), SubSeq(c[2], 1, j)),
                                  SubSeq(c[1], j + 1, Len(c[1])),
                                  SubSeq(c[2], j + 1, Len(c[2])))
                          = LexAddTexts(store, c[1], c[2])

C18_Witness ==
    /\ IsLex
    /\ ret.op = "add_texts"
    /\ ret.before = 1
    /\ Len(store.docs) = 2
    /\ store.docs[1].tfidf # EmptyDict
    /\ store.docs[1].tfidf #
           LexAddTexts(LexEmpty, <<store.docs[1].text>>, <<EmptyDict>>).docs[1].tfidf

\* the rows of the index file, 0 while there is none
FileRows(idx) == IF idx = Absent THEN 0 ELSE Len(idx.rows)

\* C19: vector add_texts with a non-empty list calls _save once, after all
\* of its batches are embedded and inserted, so that the files hold the
\* whole call; when a batch fails it calls _save not at all and the files
\* stay as they were last written
C19_PersistOncePerCall ==
    [][(store.kind = "vector" /\ ret'.op = "add_texts" /\ ret'.args.texts # <<>>) =>
          IF ret'.err = NoError
          THEN /\ ret'.writes = 1
               /\ idxFile' = store'.index
               /\ metaFile'.docs = DocsOf(store')
               /\ FileRows(idxFile') = RowCount(store) + Len(ret'.args.texts)
          ELSE /\ ret'.writes = 0
               /\ idxFile' = idxFile
               /\ metaFile' = metaFile]_vars

C19_Witness ==
    /\ IsVec
    /\ ret.op = "add_texts"
    /\ Len(ret.args.texts) > B
    /\ ret.err = NoError
    /\ ret.writes = 1
    /\ FileRows(idxFile) = ret.before + Len(ret.args.texts)

\* the texts of the batches before batch number failAt
EarlierTexts(texts, failAt) == Min((failAt - 1) * B, Len(texts))

\* C20: when the embedding of a later batch of a vector add_texts fails,
\* the rows and documents of the earlier batches of the call stay in the
\* instance after it raises, nothing is written, and the instance holds more
\* rows than the last written snapshot
C20_NoRollback ==
    [][(/\ store.kind = "vector"
        /\ ret'.op = "add_texts"
        /\ ret'.err = ErrApi
        /\ ret'.args.failAt > 1) =>
          LET e == EarlierTexts(ret'.args.texts, ret'.args.failAt)
          IN  /\ RowCount(store') = RowCount(store) + e
              /\ Len(store'.docs) = Len(store.docs) + Min(e, Len(ret'.args.metadatas))
              /\ IsPrefix(DocsOf(store), DocsOf(store'))
              /\ idxFile' = idxFile
              /\ metaFile' = metaFile
              /\ RowCount(store') > FileRows(idxFile')]_vars

C20_Witness ==
    /\ IsVec
    /\ ret.op = "add_texts"
    /\ ret.err = ErrApi
    /\ ret.args.failAt = 2
    /\ store.docs # <<>>
    /\ RowCount(store) > FileRows(idxFile)

\* what a migration reads from the legacy file: its (text, metadata) pairs
LegacyDocs(file) ==
    IF file = Absent THEN <<>>
    ELSE LET old == _read_legacy_lexical_json(file)
         IN  [i \in DOMAIN old.texts |-> [text |-> old.texts[i], metadata |-> old.metas[i]]]

\* a construction that takes the migration branch of _load_or_init
Migrates == ~VecLoadable(idxFile, metaFile) /\ LegacyDocs(lexFile) # <<>>

\* C21: constructing a vector store with no loadable index/sidecar pair, a
\* legacy file of n >= 1 docs and a working embedding client gives a store of
\* exactly those n documents, in order, with ids d1..dn, and the index and
\* sidecar files hold that state
C21_MigrationOnConstruct ==
    [][(ret'.op = "resolve" /\ Migrates /\ api_key /\ ret'.args.failAt = 0) =>
          LET old == LegacyDocs(lexFile)
          IN  /\ store'.kind = "vector"
              /\ Len(store'.docs) = Len(old)
              /\ \A i \in DOMAIN old :
                     store'.docs[i] = [id |-> DocId(i), text |-> old[i].text,
                                       metadata |-> old[i].metadata]
              /\ idxFile' = store'.index
              /\ Len(idxFile'.rows) = Len(old)
              /\ metaFile'.docs = DocsOf(store')]_vars

\* the batches add_texts cuts n texts into
Batches(n) == (n + B - 1) \div B

\* C22: a migration that runs while embeddings are unavailable (no client, or
\* the embeddings call of one of its batches fails) makes the constructor
\* raise; no index file and no sidecar is written, so no legacy document
\* reaches a persisted vector state, and the legacy file stays as it was
C22_FailedMigrationWritesNothing ==
    [][(/\ ret'.op = "resolve"
        /\ Migrates
        /\ ~api_key \/ ret'.args.failAt \in 1..Batches(Len(LegacyDocs(lexFile)))) =>
          /\ FaissVectorStore(api_key, idxFile, metaFile, lexFile,
                              ret'.args.failAt, width).err # NoError
          /\ store'.kind # "vector"
          /\ idxFile' = idxFile
          /\ metaFile' = metaFile
          /\ lexFile' = lexFile]_vars

C22_Witness ==
    /\ ret.op = "resolve"
    /\ ~api_key
    /\ LegacyDocs(lexFile) # <<>>
    /\ idxFile = Absent
    /\ metaFile = Absent
    /\ IsLex

\* _load raises on this file: json.loads rejects it, or d["id"] is missing
LoadFails(file) ==
    \/ file = Unparseable
    \/ \E i \in DOMAIN Get(file, "docs", <<>>) : "id" \notin DOMAIN file.docs[i]

\* C24: a lexical store constructed on a snapshot that exists but fails to
\* load starts fresh: no documents, an empty df and doc_count 0
C24_FailedLoadStartsFresh ==
    [][(ret'.op = "new_lexical" /\ LoadFails(lexFile)) =>
          /\ store'.docs = <<>>
          /\ store'.df = EmptyDict
          /\ store'.doc_count = 0]_vars

\* C25: in every reachable state of either store stats().docs is the number
\* of documents the instance holds, also after an add_texts that raised
\* partway
C25_StatsCountsDocs ==
    (IsLex \/ IsVec) => StatsDocs(store) = Len(store.docs)

\* C26: for either backend and any texts and metadatas, also metadatas
\* shorter than texts, the integer a successful add_texts returns is the
\* number of documents the call appended, the increase of stats().docs
C26_AddReturnsAppended ==
    [][(ret'.op = "add_texts" /\ ret'.err = NoError) =>
          /\ ret'.n = Len(store'.docs) - Len(store.docs)
          /\ ret'.n = StatsDocs(store') - StatsDocs(store)]_vars

\* the vector store clear() leaves, held or constructed again from the files
\* clear() wrote: no documents and the one-wide empty index
AfterClear(st) == st.kind = "vector" /\ st.docs = <<>> /\ st.index = IndexFlatIP(1)

\* C27: on a vector store clear() has emptied, the instance itself or one
\* constructed from the files clear() wrote, add_texts of n >= 1 texts with
\* a working client succeeds, returns n and leaves n documents and n rows
C27_UsableAfterClear ==
    [][(/\ AfterClear(store)
        /\ ret'.op = "add_texts"
        /\ store.client
        /\ ret'.args.failAt = 0
        /\ ret'.args.texts # <<>>
        /\ Len(ret'.args.metadatas) = Len(ret'.args.texts)) =>
          /\ ret'.err = NoError
          /\ ret'.n = Len(ret'.args.texts)
          /\ Len(store'.docs) = Len(ret'.args.texts)
          /\ RowCount(store') = Len(ret'.args.texts)]_vars

\* C28: whenever the dim of a vector store is set, an embedding having been
\* produced, the width of its index is dim, whatever width the client
\* returned on the first embedding
C28_IndexWidthIsDim ==
    (IsVec /\ store.dim > 0 /\ store.index # NoIndex) => store.index.d = store.dim

\* C29: once a vector store has persisted its index and sidecar, every later
\* construction loads them and migrates nothing: the store holds the
\* persisted documents, no legacy document is added again, the files stay as
\* they are, and a cleared store stays empty
C29_MigratesAtMostOnce ==
    [][(ret'.op = "resolve" /\ idxFile # Absent /\ metaFile # Absent) =>
          /\ store'.kind = "vector"
          /\ ret'.n = 0
          /\ DocsOf(store') = metaFile.docs
          /\ idxFile' = idxFile
          /\ metaFile' = metaFile]_vars

C29_Witness ==
    /\ IsVec
    /\ ret.op = "resolve"
    /\ LegacyDocs(lexFile) # <<>>
    /\ idxFile # Absent
    /\ metaFile # Absent
    /\ store.docs = <<>>

\* docs holds a document with the id and text of d
Holds(docs, d) == \E j \in DOMAIN docs : docs[j].id = d.id /\ docs[j].text = d.text

\* the other of the two instances
Other(who) == 3 - who

\* C23: with two lexical instances on one path, every add_texts replaces the
\* snapshot by the state of the instance that saved: the file's documents
\* are that instance's, and a document the other instance holds and the
\* saving one does not is absent from the file
C23_LastOverwriteWins ==
    [][ret'.op = "writer.lex_add" =>
          LET saver == HeldNext(ret'.args.who)
              other == HeldNext(Other(ret'.args.who))
          IN  /\ lexFile' = LexSave(saver)
              /\ PersistedDocs(lexFile') = DocsOf(saver)
              /\ other.kind = "lexical" =>
                     \A i \in DOMAIN other.docs :
                         ~Holds(saver.docs, other.docs[i])
                             => ~Holds(PersistedDocs(lexFile'), other.docs[i])]_vars

\* a lost update: both instances added one document to the same empty store,
\* and the file holds only the document of the one that saved last
C23_Witness ==
    /\ ret.op = "writer.lex_add"
    /\ IsLex
    /\ peer.kind = "lexical"
    /\ Len(store.docs) = 1
    /\ Len(peer.docs) = 1
    /\ store.docs[1].text # peer.docs[1].text
    /\ lexFile = LexSave(Held(ret.args.who))
    /\ ~Holds(PersistedDocs(lexFile), Held(Other(ret.args.who)).docs[1])

\* C30: the two writes of _save are separate: add_texts writes the index
\* file from the saving instance and leaves the sidecar, the sidecar write
\* takes its docs from the saving instance and leaves the index file as it
\* finds it, so that after the other instance has written the index in
\* between, the persisted index and docs come from different writers
C30_SaveWritesSeparately ==
    [][/\ (ret'.op = "writer.add_texts" /\ ret'.err = NoError) =>
              /\ idxFile' = HeldNext(ret'.args.who).index
              /\ metaFile' = metaFile
       /\ ret'.op = "writer.save_sidecar" =>
              /\ metaFile'.docs = DocsOf(Held(ret'.args.who))
              /\ idxFile' = idxFile
              /\ wrote.idx = Other(ret'.args.who) =>
                     (wrote'.idx = Other(ret'.args.who) /\ wrote'.meta = ret'.args.who)]_vars

\* a persisted pair of a two-row index of one writer and a one-document
\* sidecar of the other, and a store constructed from it whose search returns
\* a document for a row that was not embedded from it
C30_Witness ==
    /\ ret.op = "writer.search"
    /\ pend = {}
    /\ wrote.idx # 0
    /\ wrote.meta # 0
    /\ wrote.idx # wrote.meta
    /\ FileRows(idxFile) # Len(metaFile.docs)
    /\ LET st == Held(ret.args.who)
       IN  /\ st.index = idxFile
           /\ DocsOf(st) = metaFile.docs
           /\ ret.out # <<>>
           /\ \E i \in DOMAIN st.docs :
                  /\ st.docs[i].id = ret.out[1].id
                  /\ st.index.rows[i] # Embedding(st.docs[i].text)
=============================================================================
